---- MODULE Spec2Model ----
(* prompt-forge (src/prompt_forge.py): template variable extraction, value  *)
(* resolution, rendering, rule-based response simulation and the main       *)
(* pipeline.                                                                *)
(*                                                                          *)
(* A Python str is modelled as a sequence of one-character strings, so the  *)
(* regular expressions of the source are evaluated character by character.  *)
(* A Python dict is modelled as a sequence of <<key, value>> pairs with     *)
(* distinct keys, in insertion order.  An optional string (None or a str)   *)
(* is modelled as <<>> (None) or <<s>> (the str s).                         *)
EXTENDS Integers, Sequences, FiniteSets, TLC

VARIABLES
    pc,          \* position of the run in main
    args,        \* the parsed command line (argparse Namespace)
    env,         \* what the run reads: files, stdin, whether the log is writable
    template,    \* main: template
    variables,   \* main: variables (name -> default or None)
    values,      \* collect_values: values (name -> value)
    pidx,        \* collect_values: position of the interactive loop in variables
    prompts,     \* the calls of input() made so far: variable, default, answer
    rendered,    \* main: rendered, as [ok, text] (ok = FALSE: re.sub raised)
    rules,       \* the rule list handed to simulate_response
    response,    \* main: response (None or a str)
    stdout,      \* what was printed to the output stream
    stderr,      \* what was printed to the error stream
    exitcode,    \* exit status of the process once pc = "exit"
    history      \* the blocks appended to the history file by this run

vars == <<pc, args, env, template, variables, values, pidx, prompts, rendered,
          rules, response, stdout, stderr, exitcode, history>>

ioVars == <<stdout, stderr, exitcode, history>>

(* ------------------------------------------------------------------------ *)
(* Bounds                                                                   *)
(* ------------------------------------------------------------------------ *)
MaxPieces == 3
MaxWords == 2

(* ------------------------------------------------------------------------ *)
(* Characters and strings                                                   *)
(* ------------------------------------------------------------------------ *)
LowerChars == {"a","b","c","d","e","f","g","h","i","j","k","l","m","n","o",
               "p","q","r","s","t","u","v","w","x","y","z"}
UpperChars == {"A","B","C","D","E","F","G","H","I","J","K","L","M","N","O",
               "P","Q","R","S","T","U","V","W","X","Y","Z"}
DigitChars == {"0","1","2","3","4","5","6","7","8","9"}

\* \w of a str pattern
WordChars == LowerChars \cup UpperChars \cup DigitChars \cup {"_"}

\* the backtick and the apostrophe
QuoteChars == <<"`", "'">>
Backtick == QuoteChars[1]

LB == <<"{","{">>
RB == <<"}","}">>
\* the opening of a default clause, up to and including its opening quote
DefaultOpen == <<"|","d","e","f","a","u","l","t","=","\"">>

None == <<>>
Some(s) == <<s>>

\* the least element of a non-empty set of integers
Min(S) == CHOOSE x \in S : \A y \in S : x <= y

RECURSIVE Concat(_)
Concat(ss) == IF ss = <<>> THEN <<>> ELSE Head(ss) \o Concat(Tail(ss))

StartsWith(s, i, p) ==
    /\ i >= 1
    /\ i + Len(p) - 1 <= Len(s)
    /\ SubSeq(s, i, i + Len(p) - 1) = p

\* first index j >= i such that s[j] is not a word character (Len(s)+1 if none)
WordEnd(s, i) ==
    Min({ j \in i..(Len(s) + 1) : j > Len(s) \/ s[j] \notin WordChars })

\* first index j >= i such that s[j] is a double quote (Len(s)+1 if none)
QuoteAt(s, i) ==
    Min({ j \in i..(Len(s) + 1) : j > Len(s) \/ s[j] = "\"" })

(* ------------------------------------------------------------------------ *)
(* Dicts                                                                    *)
(* ------------------------------------------------------------------------ *)
RECURSIVE DictHas(_, _)
DictHas(d, k) ==
    IF d = <<>> THEN FALSE
    ELSE IF Head(d)[1] = k THEN TRUE ELSE DictHas(Tail(d), k)

RECURSIVE DictGet(_, _)
DictGet(d, k) ==
    IF Head(d)[1] = k THEN Head(d)[2] ELSE DictGet(Tail(d), k)

\* d[k] = v : an existing key keeps its position, a new key is appended
DictSet(d, k, v) ==
    IF DictHas(d, k)
    THEN [i \in 1..Len(d) |-> IF d[i][1] = k THEN <<k, v>> ELSE d[i]]
    ELSE Append(d, <<k, v>>)

DictKeys(d) == [i \in 1..Len(d) |-> d[i][1]]

KeySet(d) == {d[i][1] : i \in 1..Len(d)}

(* ------------------------------------------------------------------------ *)
(* The marker pattern: {{ NAME }} with an optional default clause between    *)
(* the name and the closing braces (|default= and a quoted run of non-quote *)
(* characters)                                                              *)
(* ------------------------------------------------------------------------ *)
\* a match: where it starts, the index after its end, the name, whether the
\* default clause took part, and the text of the default group
NoMatch == [ok |-> FALSE, start |-> 0, end |-> 0, name |-> <<>>,
            clause |-> FALSE, default |-> <<>>]

\* the tail of the pattern (optional default clause, then }}) tried at index
\* j, after the name.  The optional group is tried first; its run of
\* non-quote characters extends to the next quote.
ClauseAt(s, j, name) ==
    IF StartsWith(s, j, DefaultOpen)
    THEN LET k == QuoteAt(s, j + Len(DefaultOpen))
         IN  IF k <= Len(s) /\ StartsWith(s, k + 1, RB)
             THEN [ok |-> TRUE, start |-> j - Len(name) - 2, end |-> k + 3,
                   name |-> name, clause |-> TRUE,
                   default |-> SubSeq(s, j + Len(DefaultOpen), k - 1)]
             ELSE NoMatch
    ELSE IF StartsWith(s, j, RB)
         THEN [ok |-> TRUE, start |-> j - Len(name) - 2, end |-> j + 2,
               name |-> name, clause |-> FALSE, default |-> <<>>]
         ELSE NoMatch

\* the pattern of extract_variables matched at index i: {{, a maximal run of
\* word characters, the tail.  A group that did not take part is reported
\* by findall as the empty string
MarkerAt(s, i) ==
    IF ~StartsWith(s, i, LB) THEN NoMatch
    ELSE LET j == WordEnd(s, i + 2)
         IN  IF j = i + 2 THEN NoMatch
             ELSE ClauseAt(s, j, SubSeq(s, i + 2, j - 1))

\* re.findall: the non-overlapping matches, left to right
RECURSIVE FindAll(_, _)
FindAll(s, i) ==
    LET j == Min({ k \in i..Len(s) : MarkerAt(s, k).ok } \cup {Len(s) + 1})
    IN  IF j > Len(s) THEN <<>>
        ELSE <<MarkerAt(s, j)>> \o FindAll(s, MarkerAt(s, j).end)

\* the dict comprehension {name: default or None for name, default in ...}
RECURSIVE BuildVariables(_, _)
BuildVariables(ms, d) ==
    IF ms = <<>> THEN d
    ELSE BuildVariables(Tail(ms),
             DictSet(d, Head(ms).name,
                     IF Head(ms).default = <<>> THEN None
                     ELSE Some(Head(ms).default)))

extract_variables(t) == BuildVariables(FindAll(t, 1), <<>>)

(* ------------------------------------------------------------------------ *)
(* re.sub with a string replacement                                         *)
(* ------------------------------------------------------------------------ *)
\* characters the replacement escapes \a \b \f \n \r \t \v stand for
EscapeChar(c) ==
    CASE c = "a" -> "<BEL>"
      [] c = "b" -> "<BS>"
      [] c = "f" -> "\f"
      [] c = "n" -> "\n"
      [] c = "r" -> "\r"
      [] c = "t" -> "\t"
      [] c = "v" -> "<VT>"
      [] OTHER   -> "\\"

EscapeLetters == {"a","b","f","n","r","t","v"}

\* index of the first closing angle bracket at or after i (Len(s)+1 if none)
GtAt(s, i) == Min({ j \in i..(Len(s) + 1) : j > Len(s) \/ s[j] = ">" })

\* the replacement template parsed as re does: a sequence of parts, each a
\* literal character (lit, c) or a reference to the whole match (group0);
\* ReplError when the template is rejected.  The marker
\* pattern has no capturing group, so every group reference but 0 is
\* rejected.
ReplError == <<<<"error">>>>

RECURSIVE ParseRepl(_, _, _)
ParseRepl(r, i, acc) ==
    IF i > Len(r) THEN acc
    ELSE IF r[i] # "\\" THEN ParseRepl(r, i + 1, Append(acc, <<"lit", r[i]>>))
    ELSE IF i = Len(r) THEN ReplError
    ELSE LET c == r[i + 1] IN
         IF c = "g"
         THEN LET k == GtAt(r, i + 3)
              IN  IF /\ StartsWith(r, i + 2, <<"<">>)
                     /\ k <= Len(r)
                     /\ k > i + 3
                     /\ \A n \in (i + 3)..(k - 1) : r[n] = "0"
                  THEN ParseRepl(r, k + 1, Append(acc, <<"group0">>))
                  ELSE ReplError
         ELSE IF c = "0"
         THEN ParseRepl(r, i + 2, Append(acc, <<"lit", "<NUL>">>))
         ELSE IF c \in DigitChars THEN ReplError
         ELSE IF c = "\\" \/ c \in EscapeLetters
         THEN ParseRepl(r, i + 2, Append(acc, <<"lit", EscapeChar(c)>>))
         ELSE IF c \in LowerChars \cup UpperChars THEN ReplError
         ELSE ParseRepl(r, i + 2, Append(Append(acc, <<"lit", "\\">>), <<"lit", c>>))

RECURSIVE Expand(_, _)
Expand(parts, matched) ==
    IF parts = <<>> THEN <<>>
    ELSE (IF Head(parts)[1] = "group0" THEN matched ELSE <<Head(parts)[2]>>)
         \o Expand(Tail(parts), matched)

\* render_template with a pattern that lacks the optional default clause
VarMarkerAtNoClause(s, i, var) ==
    IF StartsWith(s, i, LB \o var \o RB)
    THEN [ok |-> TRUE, start |-> i, end |-> i + Len(var) + 4, name |-> var,
          clause |-> FALSE, default |-> <<>>]
    ELSE NoMatch

\* the pattern of render_template matched at index i: {{, the literal
\* re.escape(var), the tail
VarMarkerAt(s, i, var) ==
    IF StartsWith(s, i, LB \o var)
    THEN ClauseAt(s, i + 2 + Len(var), var)
    ELSE NoMatch

RECURSIVE SubScan(_, _, _, _)
SubScan(s, i, var, parts) ==
    LET j == Min({ k \in i..Len(s) : VarMarkerAt(s, k, var).ok } \cup {Len(s) + 1})
        e == VarMarkerAt(s, j, var).end
    IN  IF j > Len(s) THEN SubSeq(s, i, Len(s))
        ELSE SubSeq(s, i, j - 1) \o Expand(parts, SubSeq(s, j, e - 1))
                 \o SubScan(s, e, var, parts)

\* re.sub(pattern for var, val, text): [ok, text]; the replacement is parsed
\* before the text is searched, so a rejected replacement fails even when
\* the text holds no marker of var
Sub(var, val, text) ==
    LET parts == IF \E n \in 1..Len(val) : val[n] = "\\"
                 THEN ParseRepl(val, 1, <<>>)
                 ELSE [n \in 1..Len(val) |-> <<"lit", val[n]>>]
    IN  IF parts = ReplError THEN [ok |-> FALSE, text |-> text]
        ELSE [ok |-> TRUE, text |-> SubScan(text, 1, var, parts)]

\* the loop of render_template over values.items()
RECURSIVE RenderLoop(_, _)
RenderLoop(result, vs) ==
    IF vs = <<>> THEN [ok |-> TRUE, text |-> result]
    ELSE LET r == Sub(Head(vs)[1], Head(vs)[2], result)
         IN  IF r.ok THEN RenderLoop(r.text, Tail(vs)) ELSE r

render_template(t, vs) == RenderLoop(t, vs)

(* ------------------------------------------------------------------------ *)
(* Rules and simulate_response                                              *)
(* ------------------------------------------------------------------------ *)
\* A rule's regex is modelled for the two shapes the rule table uses: an
\* alternation of literal keywords, and the catch-all .*
Alt(alts) == [kind |-> "alt", alts |-> alts]
CatchAll == [kind |-> "any", alts |-> <<>>]

ResponseCode ==
    <<"H","e","r","e","'","s"," ","a"," ","c","o","d","e"," ","i","m",
      "p","l","e","m","e","n","t","a","t","i","o","n",":","\n","\n",Backtick,
      Backtick,Backtick,"\n","#"," ","I","m","p","l","e","m","e","n","t","a","t",
      "i","o","n","\n",Backtick,Backtick,Backtick,"\n","\n","T","h","i","s"," ","d",
      "e","m","o","n","s","t","r","a","t","e","s"," ","t","h","e"," ",
      "f","u","n","c","t","i","o","n","a","l","i","t","y",".">>

ResponseExplain ==
    <<"E","x","p","l","a","n","a","t","i","o","n",":","\n","\n","K","e",
      "y"," ","p","o","i","n","t","s",":","\n","1","."," ","F","i","r",
      "s","t","\n","2","."," ","S","e","c","o","n","d","\n","3","."," ",
      "T","h","i","r","d">>

ResponseSteps ==
    <<"S","t","e","p","s",":","\n","\n","1","."," ","F","i","r","s","t",
      "\n","2","."," ","S","e","c","o","n","d","\n","3","."," ","T","h",
      "i","r","d">>

ResponseDebug ==
    <<"T","r","o","u","b","l","e","s","h","o","o","t","i","n","g",":",
      "\n","\n","*","*","P","r","o","b","l","e","m",":","*","*"," ","[",
      "i","s","s","u","e","]","\n","*","*","S","o","l","u","t","i","o",
      "n",":","*","*"," ","[","f","i","x","]","\n","*","*","E","x","p",
      "l","a","n","a","t","i","o","n",":","*","*"," ","[","w","h","y",
      "]">>

ResponseReview ==
    <<"A","n","a","l","y","s","i","s",":","\n","\n","*","*","S","t","r",
      "e","n","g","t","h","s",":","*","*"," ","P","o","i","n","t"," ",
      "1","\n","*","*","I","m","p","r","o","v","e","m","e","n","t","s",
      ":","*","*"," ","P","o","i","n","t"," ","2">>

ResponseGeneric ==
    <<"I"," ","u","n","d","e","r","s","t","a","n","d","."," ","H","e",
      "r","e","'","s"," ","a"," ","r","e","s","p","o","n","s","e"," ",
      "a","d","d","r","e","s","s","i","n","g"," ","y","o","u","r"," ",
      "n","e","e","d","s",".">>

PatternCode ==
    << <<"c","o","d","e">>,
       <<"p","r","o","g","r","a","m","m","i","n","g">>,
       <<"p","y","t","h","o","n">>,
       <<"j","a","v","a","s","c","r","i","p","t">>,
       <<"f","u","n","c","t","i","o","n">>,
       <<"c","l","a","s","s">>,
       <<"i","m","p","l","e","m","e","n","t">> >>

PatternExplain ==
    << <<"e","x","p","l","a","i","n">>,
       <<"w","h","a","t"," ","i","s">>,
       <<"d","e","s","c","r","i","b","e">>,
       <<"d","e","f","i","n","i","t","i","o","n">> >>

PatternSteps ==
    << <<"l","i","s","t">>,
       <<"e","n","u","m","e","r","a","t","e">>,
       <<"s","t","e","p","s">>,
       <<"h","o","w"," ","t","o">> >>

PatternDebug ==
    << <<"d","e","b","u","g">>,
       <<"e","r","r","o","r">>,
       <<"f","i","x">>,
       <<"p","r","o","b","l","e","m">> >>

PatternReview ==
    << <<"r","e","v","i","e","w">>,
       <<"a","n","a","l","y","z","e">>,
       <<"e","v","a","l","u","a","t","e">> >>

NoMatchingResponse ==
    <<"N","o"," ","m","a","t","c","h","i","n","g"," ","r","e","s","p",
      "o","n","s","e",".">>


DEFAULT_RULES ==
    << [regex |-> Alt(PatternCode),    response |-> ResponseCode],
       [regex |-> Alt(PatternExplain), response |-> ResponseExplain],
       [regex |-> Alt(PatternSteps),   response |-> ResponseSteps],
       [regex |-> Alt(PatternDebug),   response |-> ResponseDebug],
       [regex |-> Alt(PatternReview),  response |-> ResponseReview],
       [regex |-> CatchAll,            response |-> ResponseGeneric] >>

UpperSeq == <<"A","B","C","D","E","F","G","H","I","J","K","L","M","N","O",
              "P","Q","R","S","T","U","V","W","X","Y","Z">>
LowerSeq == <<"a","b","c","d","e","f","g","h","i","j","k","l","m","n","o",
              "p","q","r","s","t","u","v","w","x","y","z">>

\* re.IGNORECASE on ASCII text: both sides are compared case-folded
FoldChar(c) ==
    IF c \in UpperChars
    THEN LowerSeq[CHOOSE i \in 1..26 : UpperSeq[i] = c]
    ELSE c

Fold(s) == [i \in 1..Len(s) |-> FoldChar(s[i])]

\* re.search(rule['regex'], prompt, re.IGNORECASE) succeeds
Search(regex, text) ==
    \/ regex.kind = "any"
    \/ \E a \in 1..Len(regex.alts) : \E i \in 1..Len(text) :
           StartsWith(Fold(text), i, Fold(regex.alts[a]))

\* str.replace(old, new) for a non-empty old: left to right, non-overlapping,
\* the new text is not scanned again
RECURSIVE Replace(_, _, _, _)
Replace(s, i, old, new) ==
    LET j == Min({ k \in i..Len(s) : StartsWith(s, k, old) } \cup {Len(s) + 1})
    IN  IF j > Len(s) THEN SubSeq(s, i, Len(s))
        ELSE SubSeq(s, i, j - 1) \o new \o Replace(s, j + Len(old), old, new)

\* for var, val in values.items(): resp = resp.replace('{{var}}', str(val))
RECURSIVE SubstResponse(_, _)
SubstResponse(resp, vs) ==
    IF vs = <<>> THEN resp
    ELSE SubstResponse(Replace(resp, 1, LB \o Head(vs)[1] \o RB, Head(vs)[2]),
                       Tail(vs))

\* simulate_response returning the response of the last matching rule
RECURSIVE SimulateLastMatch(_, _, _)
SimulateLastMatch(prompt, rs, vs) ==
    IF rs = <<>> THEN NoMatchingResponse
    ELSE LET rest == SimulateLastMatch(prompt, Tail(rs), vs)
         IN  IF rest # NoMatchingResponse THEN rest
             ELSE IF Search(Head(rs).regex, prompt)
                  THEN SubstResponse(Head(rs).response, vs)
                  ELSE NoMatchingResponse

RECURSIVE simulate_response(_, _, _)
simulate_response(prompt, rs, vs) ==
    IF rs = <<>> THEN NoMatchingResponse
    ELSE IF Search(Head(rs).regex, prompt)
         THEN SubstResponse(Head(rs).response, vs)
         ELSE simulate_response(prompt, Tail(rs), vs)

\* load_rules falling back to the built-in rules when the key is absent
LoadRulesDefaulting(doc) ==
    IF DictHas(doc, "rules") THEN DictGet(doc, "rules") ELSE DEFAULT_RULES

\* json.load(f).get('rules', []) on the parsed document
load_rules(doc) == IF DictHas(doc, "rules") THEN DictGet(doc, "rules") ELSE <<>>

(* ------------------------------------------------------------------------ *)
(* collect_values                                                           *)
(* ------------------------------------------------------------------------ *)
\* truth value of an optional str: None and the empty str are false
Truthy(o) == o # None /\ o[1] # <<>>

\* index of the first = in v (Len(v)+1 if none)
EqAt(v, i) == Min({ j \in i..(Len(v) + 1) : j > Len(v) \/ v[j] = "=" })

\* values.update(json.load(f)) for a document that is a flat mapping
RECURSIVE DictUpdate(_, _)
DictUpdate(d, doc) ==
    IF doc = <<>> THEN d
    ELSE DictUpdate(DictSet(d, Head(doc)[1], Head(doc)[2]), Tail(doc))

\* the loop over args.var keeping the value a key already has, so that a
\* file value or an earlier --var wins
RECURSIVE ParseVarsKeepFirst(_, _)
ParseVarsKeepFirst(vs, d) ==
    IF vs = <<>> THEN [values |-> d, bad |-> <<>>]
    ELSE LET v == Head(vs)
             e == EqAt(v, 1)
         IN  IF e > Len(v) THEN [values |-> d, bad |-> <<v>>]
             ELSE ParseVarsKeepFirst(Tail(vs),
                      IF DictHas(d, SubSeq(v, 1, e - 1)) THEN d
                      ELSE DictSet(d, SubSeq(v, 1, e - 1), SubSeq(v, e + 1, Len(v))))

\* the loop over args.var: k, val = v.split('=', 1); values[k] = val.
\* bad = <<v>> for the first v without an =, which raises
RECURSIVE ParseVars(_, _)
ParseVars(vs, d) ==
    IF vs = <<>> THEN [values |-> d, bad |-> <<>>]
    ELSE LET v == Head(vs)
             e == EqAt(v, 1)
         IN  IF e > Len(v) THEN [values |-> d, bad |-> <<v>>]
             ELSE ParseVars(Tail(vs),
                      DictSet(d, SubSeq(v, 1, e - 1), SubSeq(v, e + 1, Len(v))))

\* for var, default in variables.items():
\*     if var not in values and default: values[var] = default
RECURSIVE ApplyDefaults(_, _)
ApplyDefaults(vbs, d) ==
    IF vbs = <<>> THEN d
    ELSE ApplyDefaults(Tail(vbs),
             IF ~DictHas(d, Head(vbs)[1]) /\ Truthy(Head(vbs)[2])
             THEN DictSet(d, Head(vbs)[1], Head(vbs)[2][1])
             ELSE d)

\* the interactive loop prompting for the variables that have a value
RECURSIVE NextResolved(_, _, _)
NextResolved(vbs, d, i) ==
    IF i > Len(vbs) THEN 0
    ELSE IF DictHas(d, vbs[i][1]) THEN i
    ELSE NextResolved(vbs, d, i + 1)

\* position in vbs, at or after i, of the next variable that is not in d
\* (0 if none): the next iteration of the interactive loop that prompts
RECURSIVE NextUnresolved(_, _, _)
NextUnresolved(vbs, d, i) ==
    IF i > Len(vbs) THEN 0
    ELSE IF ~DictHas(d, vbs[i][1]) THEN i
    ELSE NextUnresolved(vbs, d, i + 1)

Whitespace == {" ", "\n", "\t", "\r", "\f", "<VT>"}

\* str.strip()
Strip(s) ==
    LET keep == { i \in 1..Len(s) : s[i] \notin Whitespace }
    IN  IF keep = {} THEN <<>>
        ELSE SubSeq(s, Min(keep), CHOOSE i \in keep : \A j \in keep : j <= i)

\* missing = [v for v in variables if v not in values]
Missing(vbs, d) ==
    LET F[i \in 0..Len(vbs)] ==
            IF i = 0 THEN <<>>
            ELSE IF DictHas(d, vbs[i][1]) THEN F[i - 1]
                 ELSE Append(F[i - 1], vbs[i][1])
    IN  F[Len(vbs)]

\* unused = [v for v in values if v not in variables]
Unused(vbs, d) ==
    LET F[i \in 0..Len(d)] ==
            IF i = 0 THEN <<>>
            ELSE IF DictHas(vbs, d[i][1]) THEN F[i - 1]
                 ELSE Append(F[i - 1], d[i][1])
    IN  F[Len(d)]

(* ------------------------------------------------------------------------ *)
(* format_output and estimate_tokens                                        *)
(* ------------------------------------------------------------------------ *)
\* len(text.split()): the number of maximal runs of non-whitespace
WordCount(s) ==
    Cardinality({ i \in 1..Len(s) :
                    /\ s[i] \notin Whitespace
                    /\ (i = 1 \/ s[i - 1] \in Whitespace) })

\* int(len(text.split()) * 1.3)
estimate_tokens(s) == (WordCount(s) * 13) \div 10

(* ------------------------------------------------------------------------ *)
(* The run of main                                                          *)
(* ------------------------------------------------------------------------ *)
Line(tag, kind, detail) == [tag |-> tag, kind |-> kind, detail |-> detail]

\* except Exception as e: print(f"Error: {e}", file=sys.stderr); sys.exit(1)
Fail(kind, detail) ==
    /\ stderr' = Append(stderr, Line("Error:", kind, detail))
    /\ exitcode' = 1
    /\ pc' = "exit"

\* p.error(msg) of argparse: prints the usage and prog: error: msg to the
\* error stream and raises SystemExit(2), which is not an Exception and
\* passes through both except clauses of main
ArgparseError(kind) ==
    /\ stderr' = stderr \o << Line("usage:", "usage", <<>>),
                              Line("error:", kind, <<>>) >>
    /\ exitcode' = 2
    /\ pc' = "exit"

\* main returns: the process exits with status 0
Return ==
    /\ exitcode' = 0
    /\ pc' = "exit"

parse_args ==
    /\ pc = "start"
    /\ IF Truthy(args.inline_template) /\ Truthy(args.template)
       THEN ArgparseError("Cannot specify both file and --template")
       ELSE IF args.check /\ (args.simulate \/ Truthy(args.save))
       THEN ArgparseError("Cannot combine --check with actions")
       ELSE /\ pc' = IF args.version THEN "version" ELSE "load_template"
            /\ UNCHANGED <<stderr, exitcode>>
    /\ UNCHANGED <<args, env, template, variables, values, pidx, prompts,
                   rendered, rules, response, stdout, history>>

PrintVersion ==
    /\ pc = "version"
    /\ stdout' = Append(stdout, [kind |-> "version"])
    /\ Return
    /\ UNCHANGED <<args, env, template, variables, values, pidx, prompts,
                   rendered, rules, response, stderr, history>>

load_template ==
    /\ pc = "load_template"
    /\ IF Truthy(args.inline_template)
       THEN /\ template' = args.inline_template[1]
            /\ pc' = "extract"
            /\ UNCHANGED <<stderr, exitcode>>
       ELSE IF Truthy(args.template)
       THEN IF env.template_file = None
            THEN Fail("No such file", <<args.template[1]>>) /\ UNCHANGED template
            ELSE /\ template' = env.template_file[1]
                 /\ pc' = "extract"
                 /\ UNCHANGED <<stderr, exitcode>>
       ELSE IF env.stdin_tty
            THEN Fail("No template", <<>>) /\ UNCHANGED template
            ELSE /\ template' = env.stdin
                 /\ pc' = "extract"
                 /\ UNCHANGED <<stderr, exitcode>>
    /\ UNCHANGED <<args, env, variables, values, pidx, prompts, rendered,
                   rules, response, stdout, history>>

ExtractVariables ==
    /\ pc = "extract"
    /\ variables' = extract_variables(template)
    /\ pc' = IF args.check THEN "check" ELSE "collect"
    /\ UNCHANGED <<args, env, template, values, pidx, prompts, rendered,
                   rules, response, stdout, stderr, exitcode, history>>

\* the listing of --check: a variable shows its default when it has one
\* and (required) otherwise
PrintCheck ==
    /\ pc = "check"
    /\ stdout' = Append(stdout, [kind |-> "check", listing |-> variables])
    /\ Return
    /\ UNCHANGED <<args, env, template, variables, values, pidx, prompts,
                   rendered, rules, response, stderr, history>>

\* the end of collect_values, from the computation of missing
FinishCollect(vals) ==
    LET missing == Missing(variables, vals)
        unused  == Unused(variables, vals)
    IN  IF missing # <<>>
        THEN Fail("Missing", missing)
        ELSE /\ stderr' = IF unused # <<>>
                          THEN Append(stderr, Line("Warning:", "Unused", unused))
                          ELSE stderr
             /\ pc' = "render"
             /\ UNCHANGED exitcode

\* collect_values up to its first call of input(), or to its end
collect_values ==
    /\ pc = "collect"
    /\ IF Truthy(args.vars) /\ ~env.vars_file.exists
       THEN Fail("No such file", <<args.vars[1]>>) /\ UNCHANGED <<values, pidx>>
       ELSE IF Truthy(args.vars) /\ ~env.vars_file.valid
       THEN Fail("JSON", <<>>) /\ UNCHANGED <<values, pidx>>
       ELSE LET fromFile == IF Truthy(args.vars)
                            THEN DictUpdate(<<>>, env.vars_file.doc) ELSE <<>>
                parsed   == ParseVars(args.var, fromFile)
                vals     == ApplyDefaults(variables, parsed.values)
                nxt      == NextUnresolved(variables, vals, 1)
            IN  IF parsed.bad # <<>>
                THEN Fail("Invalid --var", parsed.bad) /\ UNCHANGED <<values, pidx>>
                ELSE /\ values' = vals
                     /\ IF args.interactive /\ nxt # 0
                        THEN /\ pidx' = nxt
                             /\ pc' = "prompt"
                             /\ UNCHANGED <<stderr, exitcode>>
                        ELSE /\ FinishCollect(vals)
                             /\ UNCHANGED pidx
    /\ UNCHANGED <<args, env, template, variables, prompts, rendered, rules,
                   response, stdout, history>>

Responses == { <<>>, <<"r">>, <<" ","r"," ">> }

\* one call of input() in the interactive loop and the assignment after it;
\* an end of input raises EOFError
PromptInput ==
    /\ pc = "prompt"
    /\ LET var     == variables[pidx][1]
           default == variables[pidx][2]
       IN  \/ /\ prompts' = Append(prompts,
                                [var |-> var, default |-> default, resp |-> None])
              /\ Fail("EOF", <<>>)
              /\ UNCHANGED <<values, pidx>>
           \/ \E resp \in Responses :
                    LET val  == Strip(resp)
                        vals == DictSet(values, var,
                                    IF val # <<>> THEN val
                                    ELSE IF Truthy(default) THEN default[1]
                                    ELSE <<>>)
                        nxt  == NextUnresolved(variables, vals, pidx + 1)
                    IN  /\ prompts' = Append(prompts,
                                [var |-> var, default |-> default,
                                 resp |-> Some(resp)])
                        /\ values' = vals
                        /\ IF nxt # 0
                           THEN /\ pidx' = nxt
                                /\ UNCHANGED <<pc, stderr, exitcode>>
                           ELSE /\ FinishCollect(vals)
                                /\ UNCHANGED pidx
    /\ UNCHANGED <<args, env, template, variables, rendered, rules,
                   response, stdout, history>>

\* main going on to the simulation and the rest under --dry-run too
RenderIgnoringDryRun ==
    /\ pc = "render"
    /\ LET r == render_template(template, values)
       IN  IF ~r.ok
           THEN Fail("bad escape", <<>>) /\ UNCHANGED rendered
           ELSE /\ rendered' = r
                /\ pc' = "simulate"
                /\ UNCHANGED <<stderr, exitcode>>
    /\ UNCHANGED <<args, env, template, variables, values, pidx, prompts,
                   rules, response, stdout, history>>

Render ==
    /\ pc = "render"
    /\ LET r == render_template(template, values)
       IN  IF ~r.ok
           THEN Fail("bad escape", <<>>) /\ UNCHANGED rendered
           ELSE /\ rendered' = r
                /\ pc' = IF args.dry_run THEN "dry_run" ELSE "simulate"
                /\ UNCHANGED <<stderr, exitcode>>
    /\ UNCHANGED <<args, env, template, variables, values, pidx, prompts,
                   rules, response, stdout, history>>

PrintDryRun ==
    /\ pc = "dry_run"
    /\ stdout' = Append(stdout, [kind |-> "dry_run", prompt |-> rendered.text])
    /\ Return
    /\ UNCHANGED <<args, env, template, variables, values, pidx, prompts,
                   rendered, rules, response, stderr, history>>

\* response = simulate_response(rendered, load_rules(args.rules) if
\*            args.rules else DEFAULT_RULES, values) if args.simulate else None
Simulate ==
    /\ pc = "simulate"
    /\ IF ~args.simulate
       THEN /\ response' = None
            /\ pc' = "format"
            /\ UNCHANGED <<rules, stderr, exitcode>>
       ELSE IF Truthy(args.rules) /\ ~env.rules_file.exists
       THEN Fail("No such file", <<args.rules[1]>>) /\ UNCHANGED <<rules, response>>
       ELSE IF Truthy(args.rules) /\ ~env.rules_file.valid
       THEN Fail("JSON", <<>>) /\ UNCHANGED <<rules, response>>
       ELSE LET rs == IF Truthy(args.rules)
                      THEN load_rules(env.rules_file.doc) ELSE DEFAULT_RULES
            IN  /\ rules' = rs
                /\ response' = Some(simulate_response(rendered.text, rs, values))
                /\ pc' = "format"
                /\ UNCHANGED <<stderr, exitcode>>
    /\ UNCHANGED <<args, env, template, variables, values, pidx, prompts,
                   rendered, stdout, history>>

\* the three layouts print the same parts: the prompt, the token estimate
\* when it is asked for and not zero, the response when it is not empty
format_output ==
    /\ pc = "format"
    /\ LET tokens == IF args.show_tokens
                     THEN estimate_tokens(rendered.text) ELSE 0
       IN  stdout' = Append(stdout,
                [kind     |-> "output",
                 format   |-> args.format,
                 prompt   |-> rendered.text,
                 tokens   |-> tokens,
                 response |-> IF Truthy(response) THEN response ELSE None])
    /\ IF Truthy(args.save)
       THEN pc' = "save" /\ UNCHANGED exitcode
       ELSE Return
    /\ UNCHANGED <<args, env, template, variables, values, pidx, prompts,
                   rendered, rules, response, stderr, history>>

\* mkdir or open fails when the log cannot be written; otherwise one block
\* is appended and the confirmation goes to the error stream
save_to_history ==
    /\ pc = "save"
    /\ IF ~env.save_ok
       THEN Fail("Permission denied", <<args.save[1]>>) /\ UNCHANGED history
       ELSE /\ history' = Append(history,
                    [prompt   |-> rendered.text,
                     response |-> IF Truthy(response) THEN response ELSE None])
            /\ stderr' = Append(stderr, Line("Saved", "Saved", <<args.save[1]>>))
            /\ Return
    /\ UNCHANGED <<args, env, template, variables, values, pidx, prompts,
                   rendered, rules, response, stdout>>

\* except KeyboardInterrupt: sys.exit(1)
Interrupt ==
    /\ pc # "exit"
    /\ pc' = "exit"
    /\ exitcode' = 1
    /\ UNCHANGED <<args, env, template, variables, values, pidx, prompts,
                   rendered, rules, response, stdout, stderr, history>>

(* ------------------------------------------------------------------------ *)
(* Inputs                                                                   *)
(* ------------------------------------------------------------------------ *)
NameX == <<"x">>
NameY == <<"y">>
NameZ == <<"z">>

Marker(n) == LB \o n \o RB
MarkerD(n, d) == LB \o n \o DefaultOpen \o d \o <<"\"">> \o RB

TemplatePieces ==
    { Marker(NameX), Marker(NameY), MarkerD(NameX, <<"A">>), MarkerD(NameX, <<>>),
      LB, RB, NameX, <<" ">> }

TemplatesOf(n) == { Concat(ps) : ps \in UNION { [1..k -> TemplatePieces] : k \in 0..n } }

ValueStrings ==
    { <<>>, <<"v">>, NameX, Marker(NameX), Marker(NameY),
      <<"\\","g","<","0",">">>, <<"\\","\\">>, <<"\\","x">> }

ValueMaps ==
    {<<>>}
    \cup { <<<<k, v>>>> : k \in {NameX, NameY}, v \in ValueStrings }
    \cup { <<<<NameX, v>>, <<NameY, w>>>> : v \in ValueStrings, w \in ValueStrings }
    \cup { <<<<NameY, w>>, <<NameX, v>>>> : v \in ValueStrings, w \in ValueStrings }

NoFile == [exists |-> FALSE, valid |-> FALSE, doc |-> <<>>]
FileOf(doc) == [exists |-> TRUE, valid |-> TRUE, doc |-> doc]
BadFile == [exists |-> TRUE, valid |-> FALSE, doc |-> <<>>]

BlankArgs ==
    [inline_template |-> None, template |-> None, var |-> <<>>, vars |-> None,
     interactive |-> FALSE, simulate |-> FALSE, rules |-> None,
     format |-> "text", show_tokens |-> FALSE, save |-> None,
     check |-> FALSE, dry_run |-> FALSE, version |-> FALSE]

BlankEnv ==
    [template_file |-> None, stdin_tty |-> TRUE, stdin |-> <<>>,
     vars_file |-> NoFile, rules_file |-> NoFile, save_ok |-> TRUE]

(* ------------------------------------------------------------------------ *)
(* The template functions applied to drawn inputs                           *)
(* ------------------------------------------------------------------------ *)
InitTemplate ==
    /\ pc = "t_extract"
    /\ template \in TemplatesOf(MaxPieces)
    /\ values \in ValueMaps
    /\ variables = <<>>
    /\ rendered = [ok |-> FALSE, text |-> <<>>]
    /\ args = BlankArgs
    /\ env = BlankEnv
    /\ pidx = 0
    /\ prompts = <<>>
    /\ rules = <<>>
    /\ response = None
    /\ stdout = <<>>
    /\ stderr = <<>>
    /\ exitcode = 0
    /\ history = <<>>

ApplyExtract ==
    /\ pc = "t_extract"
    /\ variables' = extract_variables(template)
    /\ pc' = "t_render"
    /\ UNCHANGED <<args, env, template, values, pidx, prompts, rendered,
                   rules, response, ioVars>>

ApplyRender ==
    /\ pc = "t_render"
    /\ rendered' = render_template(template, values)
    /\ pc' = "t_done"
    /\ UNCHANGED <<args, env, template, variables, values, pidx, prompts,
                   rules, response, ioVars>>

NextTemplate == ApplyExtract \/ ApplyRender

SpecTemplate == InitTemplate /\ [][NextTemplate]_vars

(* ------------------------------------------------------------------------ *)
(* simulate_response applied to drawn inputs                                *)
(* ------------------------------------------------------------------------ *)
TextPieces ==
    { <<"p","l","e","a","s","e"," ","e","x","p","l","a","i","n"," ","h",
        "o","w"," ","t","o"," ","i","m","p","l","e","m","e","n","t"," ",
        "a"," ","c","l","a","s","s">>,
      <<"h","e","l","l","o"," ","t","h","e","r","e">>,
      <<"e","x","p","l","a","i","n">>,
      <<"C","l","a","s","s">>,
      <<"h","o","w"," ","t","o">>,
      <<"F","I","X">>,
      <<"r","e","v","i","e","w">>,
      <<" ">>,
      <<"x">>,
      <<"l","i","s","t">> }

TextsOf(n) == { Concat(ps) : ps \in UNION { [1..k -> TextPieces] : k \in 0..n } }

\* a rule list without a catch-all, and one whose catch-all is followed by
\* another rule
RulesNoCatchAll ==
    << [regex |-> Alt(<< <<"h","e","l","l","o">> >>),
        response |-> <<"H","i"," ","{","{","x","}","}">>],
       [regex |-> Alt(<< <<"c","l","a","s","s">>, <<"f","i","x">> >>),
        response |-> <<"C">>] >>

RulesCatchAllSecond ==
    << [regex |-> Alt(<< <<"f","i","x">> >>),
        response |-> <<"F">>],
       [regex |-> CatchAll,
        response |-> <<"G"," ","{","{","x","}","}">>],
       [regex |-> Alt(<< <<"h","e","l","l","o">> >>),
        response |-> <<"H">>] >>

RulesDocs ==
    { <<>>,
      << <<"rules", <<>> >> >>,
      << <<"rules", RulesNoCatchAll>> >>,
      << <<"rules", RulesCatchAllSecond>> >>,
      << <<"name", RulesCatchAllSecond>> >> }

RulesPath == <<"r",".","j","s","o","n">>

SimValueMaps == { <<>>, << <<NameX, <<"v">> >> >> }

InitSim ==
    /\ pc = "s_load"
    /\ \E r \in {None, Some(RulesPath)} :
           args = [BlankArgs EXCEPT !.simulate = TRUE, !.rules = r]
    /\ \E doc \in RulesDocs :
           env = [BlankEnv EXCEPT !.rules_file = FileOf(doc)]
    /\ \E t \in TextsOf(MaxWords) : rendered = [ok |-> TRUE, text |-> t]
    /\ values \in SimValueMaps
    /\ template = <<>>
    /\ variables = <<>>
    /\ pidx = 0
    /\ prompts = <<>>
    /\ rules = <<>>
    /\ response = None
    /\ stdout = <<>>
    /\ stderr = <<>>
    /\ exitcode = 0
    /\ history = <<>>

ApplyLoadRules ==
    /\ pc = "s_load"
    /\ rules' = IF Truthy(args.rules)
                THEN load_rules(env.rules_file.doc) ELSE DEFAULT_RULES
    /\ pc' = "s_simulate"
    /\ UNCHANGED <<args, env, template, variables, values, pidx, prompts,
                   rendered, response, ioVars>>

ApplySimulate ==
    /\ pc = "s_simulate"
    /\ response' = Some(simulate_response(rendered.text, rules, values))
    /\ pc' = "s_done"
    /\ UNCHANGED <<args, env, template, variables, values, pidx, prompts,
                   rendered, rules, ioVars>>

NextSim == ApplyLoadRules \/ ApplySimulate

SpecSim == InitSim /\ [][NextSim]_vars

(* ------------------------------------------------------------------------ *)
(* The runs of main                                                         *)
(* ------------------------------------------------------------------------ *)
\* {{x}} and {{y|default=Y}}
TemplateXY == Marker(NameX) \o <<" ","a","n","d"," ">> \o MarkerD(NameY, <<"Y">>)
\* {{x|default=W}} class
TemplateDefault == MarkerD(NameX, <<"W">>) \o <<" ","c","l","a","s","s">>
\* {{x|default=}}, the default being the empty string
TemplateEmptyDefault == MarkerD(NameX, <<>>)
\* {{y}} {{x}}
TemplateYX == Marker(NameY) \o <<" ">> \o Marker(NameX)

MainTemplates == {TemplateXY, TemplateDefault, TemplateEmptyDefault, TemplateYX}

TemplatePath == <<"t",".","t","x","t">>
VarsPath == <<"v",".","j","s","o","n">>
SavePath == <<"l","o","g">>

\* where the template comes from: inline text, a file (present or not), both
\* an inline text and a file, the standard input (a terminal or not)
Sources ==
    { [inline |-> Some(t), path |-> None, file |-> None, tty |-> TRUE, stdin |-> <<>>]
        : t \in MainTemplates }
    \cup
    { [inline |-> None, path |-> Some(TemplatePath), file |-> Some(TemplateXY),
       tty |-> TRUE, stdin |-> <<>>],
      [inline |-> None, path |-> Some(TemplatePath), file |-> None,
       tty |-> TRUE, stdin |-> <<>>],
      [inline |-> Some(TemplateXY), path |-> Some(TemplatePath),
       file |-> Some(TemplateDefault), tty |-> TRUE, stdin |-> <<>>],
      [inline |-> None, path |-> None, file |-> None, tty |-> TRUE, stdin |-> <<>>],
      [inline |-> None, path |-> None, file |-> None, tty |-> FALSE,
       stdin |-> TemplateDefault] }

\* the --var arguments: none, x=C, x=C x=D, y=C=D z=U, x (no =), and x
\* with a backslash escape that re rejects
VarLists ==
    { <<>>,
      << <<"x","=","\\","x">> >>,
      << <<"x","=","C">> >>,
      << <<"x","=","C">>, <<"x","=","D">> >>,
      << <<"y","=","C","=","D">>, <<"z","=","U">> >>,
      << <<"x">> >> }

\* the --vars file: not given, absent, not JSON, {x: F}, {y: G, x: F}
VarsFiles ==
    { [path |-> None, file |-> NoFile],
      [path |-> Some(VarsPath), file |-> NoFile],
      [path |-> Some(VarsPath), file |-> BadFile],
      [path |-> Some(VarsPath), file |-> FileOf(<< <<NameX, <<"F">> >> >>)],
      [path |-> Some(VarsPath),
       file |-> FileOf(<< <<NameY, <<"G">> >>, <<NameX, <<"F">> >> >>)] }

\* the --rules file: not given, absent, a rule list without a catch-all
RulesFiles ==
    { [path |-> None, file |-> NoFile],
      [path |-> Some(RulesPath), file |-> NoFile],
      [path |-> Some(RulesPath), file |-> FileOf(<< <<"rules", RulesNoCatchAll>> >>)] }

\* --format and --show-tokens
Layouts ==
    { [format |-> "text", show_tokens |-> FALSE],
      [format |-> "text", show_tokens |-> TRUE],
      [format |-> "markdown", show_tokens |-> TRUE],
      [format |-> "json", show_tokens |-> FALSE] }

\* The rules file is read only under --simulate and the log is written only
\* under --save, so the runs without the flag are drawn with one rules file
\* and a writable log
Init ==
    /\ pc = "start"
    /\ \E src \in Sources, vl \in VarLists, vf \in VarsFiles, rf \in RulesFiles,
          fl \in [{"interactive", "simulate", "save", "check",
                   "dry_run", "version", "save_ok"} -> BOOLEAN],
          lay \in Layouts :
          /\ fl["simulate"] \/ rf.path = None
          /\ fl["save"] \/ fl["save_ok"]
          /\ args = [inline_template |-> src.inline, template |-> src.path,
                     var |-> vl, vars |-> vf.path,
                     interactive |-> fl["interactive"],
                     simulate |-> fl["simulate"], rules |-> rf.path,
                     format |-> lay.format, show_tokens |-> lay.show_tokens,
                     save |-> IF fl["save"] THEN Some(SavePath) ELSE None,
                     check |-> fl["check"], dry_run |-> fl["dry_run"],
                     version |-> fl["version"]]
          /\ env = [template_file |-> src.file, stdin_tty |-> src.tty,
                    stdin |-> src.stdin, vars_file |-> vf.file,
                    rules_file |-> rf.file, save_ok |-> fl["save_ok"]]
    /\ template = <<>>
    /\ variables = <<>>
    /\ values = <<>>
    /\ pidx = 0
    /\ prompts = <<>>
    /\ rendered = [ok |-> FALSE, text |-> <<>>]
    /\ rules = <<>>
    /\ response = None
    /\ stdout = <<>>
    /\ stderr = <<>>
    /\ exitcode = 0
    /\ history = <<>>

Next ==
    \/ parse_args
    \/ PrintVersion
    \/ load_template
    \/ ExtractVariables
    \/ PrintCheck
    \/ collect_values
    \/ PromptInput
    \/ Render
    \/ PrintDryRun
    \/ Simulate
    \/ format_output
    \/ save_to_history
    \/ Interrupt

Spec == Init /\ [][Next]_vars

(* ------------------------------------------------------------------------ *)
(* Properties of extract_variables and render_template (SpecTemplate)       *)
(* ------------------------------------------------------------------------ *)
Markers(t) == FindAll(t, 1)

MarkerNames(t) == { Markers(t)[i].name : i \in 1..Len(Markers(t)) }

\* the occurrences of name n in t, and those that carry a default clause
Occurrences(t, n) == { i \in 1..Len(Markers(t)) : Markers(t)[i].name = n }
WithClause(t, n) == { i \in Occurrences(t, n) : Markers(t)[i].clause }

\* value maps that have an entry for every variable of the template
Covers(vs, vbs) == KeySet(vbs) \subseteq KeySet(vs)

\* no marker of a name in vs occurs in the text
NoMarkerLeft(text, vs) ==
    \A i \in 1..Len(Markers(text)) : Markers(text)[i].name \notin KeySet(vs)

\* C3: the keys of extract_variables(T) are exactly the distinct marker names
\* of T, and for a name that occurs several times the recorded default is the
\* default of its first occurrence that carries one, whatever later
\* occurrences of the name look like.
C3_FirstDefaultWins ==
    pc # "t_extract" =>
        /\ KeySet(variables) = MarkerNames(template)
        /\ \A n \in MarkerNames(template) :
               (Cardinality(Occurrences(template, n)) > 1
                    /\ WithClause(template, n) # {})
               => DictGet(variables, n)
                    = Some(Markers(template)[Min(WithClause(template, n))].default)

\* C4 as stated: for values covering every variable of T, the rendered text
\* holds no marker of a name in the value map, whatever the values are.
C4_NoMarkerLeftAnyValue ==
    (pc = "t_done" /\ rendered.ok /\ Covers(values, variables))
        => NoMarkerLeft(rendered.text, values)

\* the positions of the braces of t
BracePositions(t) == { i \in 1..Len(t) : t[i] \in {"{", "}"} }

\* the positions of the delimiters {{ and }} of the markers of t
DelimiterPositions(t) ==
    UNION { { Markers(t)[i].start, Markers(t)[i].start + 1,
              Markers(t)[i].end - 2, Markers(t)[i].end - 1 }
            : i \in 1..Len(Markers(t)) }

\* no value holds a brace or a backslash
PlainValues(vs) ==
    \A i \in 1..Len(vs) : \A k \in 1..Len(vs[i][2]) :
        vs[i][2][k] \notin {"{", "}", "\\"}

C4_Precondition ==
    /\ pc = "t_done"
    /\ rendered.ok
    /\ Covers(values, variables)
    /\ PlainValues(values)
    /\ BracePositions(template) = DelimiterPositions(template)

\* C4 (amended): for values covering every variable of T, the rendered text
\* holds no marker of a name in the value map, provided that no value holds a
\* brace or a backslash and that every brace of T is part of the {{ or }} of
\* one of T's markers.
C4_NoMarkerLeft ==
    C4_Precondition => NoMarkerLeft(rendered.text, values)

\* a template with a defaulted marker of x and a marker of y, both replaced
C4_Witness ==
    /\ C4_Precondition
    /\ template = MarkerD(NameX, <<"A">>) \o Marker(NameY)
    /\ values = << <<NameX, <<"v">> >>, <<NameY, <<>> >> >>
    /\ rendered.text = <<"v">>

\* every marker of t whose name is a key of vs replaced by that key's value,
\* all at once: the text put in is copied as it is and not scanned
RECURSIVE ReplaceAtOnce(_, _, _, _)
ReplaceAtOnce(t, i, ms, vs) ==
    IF ms = <<>> THEN SubSeq(t, i, Len(t))
    ELSE LET m == Head(ms)
         IN  SubSeq(t, i, m.start - 1)
             \o (IF DictHas(vs, m.name) THEN DictGet(vs, m.name)
                 ELSE SubSeq(t, m.start, m.end - 1))
             \o ReplaceAtOnce(t, m.end, Tail(ms), vs)

Reverse(d) == [i \in 1..Len(d) |-> d[Len(d) + 1 - i]]

\* C5: render_template is a single-pass literal substitution: the rendered
\* text is the template with every marker of a name in the value map replaced
\* at once by the value, text put in by a value is never scanned again, and
\* the order in which the names are processed does not change the result.
C5_SinglePassLiteral ==
    pc = "t_done" =>
        /\ rendered.ok
        /\ rendered.text = ReplaceAtOnce(template, 1, Markers(template), values)
        /\ render_template(template, Reverse(values)) = rendered

(* ------------------------------------------------------------------------ *)
(* Properties of simulate_response (SpecSim)                                *)
(* ------------------------------------------------------------------------ *)
\* the positions of the rules whose pattern is found in the text
Matching(rs, text) == { i \in 1..Len(rs) : Search(rs[i].regex, text) }

ExplainClassText ==
    <<"p","l","e","a","s","e"," ","e","x","p","l","a","i","n"," ","h",
      "o","w"," ","t","o"," ","i","m","p","l","e","m","e","n","t"," ",
      "a"," ","c","l","a","s","s">>
HelloThereText == <<"h","e","l","l","o"," ","t","h","e","r","e">>

\* C6: simulate_response returns the response of the first rule, in list
\* order, whose pattern is found in the text without regard to case (its
\* markers of the names in values filled in); with the built-in rules a text
\* that matches both the code pattern and the explanation pattern gets the
\* code-implementation response.
C6_FirstMatchWins ==
    pc = "s_done" =>
        /\ Matching(rules, rendered.text) # {}
           => response = Some(SubstResponse(
                  rules[Min(Matching(rules, rendered.text))].response, values))
        /\ (rules = DEFAULT_RULES
                /\ Search(Alt(PatternCode), rendered.text)
                /\ Search(Alt(PatternExplain), rendered.text))
           => response = Some(ResponseCode)
        /\ (rules = DEFAULT_RULES /\ rendered.text = <<"C","l","a","s","s">>)
           => response = Some(ResponseCode)

\* the text of the example matches the first two built-in patterns and gets
\* the response of the first
C6_Witness ==
    /\ pc = "s_done"
    /\ rules = DEFAULT_RULES
    /\ rendered.text = ExplainClassText
    /\ {1, 2} \subseteq Matching(rules, rendered.text)
    /\ response = Some(ResponseCode)

HasCatchAll(rs) == \E i \in 1..Len(rs) : rs[i].regex = CatchAll

\* C7: simulate_response always returns a string; when no rule matches,
\* as with the empty rule list of a rules file without a rules key, it is the
\* fixed fallback string; when the list holds a catch-all rule it is never
\* the fallback string, and with the built-in rules a text matching none of
\* the five specific patterns gets the generic response.
C7_AlwaysAResponse ==
    pc = "s_done" =>
        /\ response # None
        /\ Matching(rules, rendered.text) = {}
           => response = Some(NoMatchingResponse)
        /\ (Truthy(args.rules) /\ ~DictHas(env.rules_file.doc, "rules"))
           => (rules = <<>> /\ response = Some(NoMatchingResponse))
        /\ HasCatchAll(rules) => response # Some(NoMatchingResponse)
        /\ (rules = DEFAULT_RULES
                /\ \A i \in 1..5 : ~Search(DEFAULT_RULES[i].regex, rendered.text))
           => response = Some(ResponseGeneric)

\* a rules file without a rules key: the empty list and the fallback string
C7_Witness ==
    /\ pc = "s_done"
    /\ Truthy(args.rules)
    /\ ~DictHas(env.rules_file.doc, "rules")
    /\ rules = <<>>
    /\ rendered.text = HelloThereText
    /\ response = Some(NoMatchingResponse)

(* ------------------------------------------------------------------------ *)
(* Properties of the runs of main (Spec)                                    *)
(* ------------------------------------------------------------------------ *)
\* the --var arguments that give name v a value
CliArgs(v) == { i \in 1..Len(args.var) : StartsWith(args.var[i], 1, v \o <<"=">>) }

\* the value of the last --var argument for v
CliLast(v) ==
    LET i == CHOOSE k \in CliArgs(v) : \A j \in CliArgs(v) : j <= k
    IN  SubSeq(args.var[i], Len(v) + 2, Len(args.var[i]))

\* the entries of the --vars file for v
FileEntries(v) ==
    IF Truthy(args.vars)
    THEN { i \in 1..Len(env.vars_file.doc) : env.vars_file.doc[i][1] = v }
    ELSE {}

FileValue(v) == env.vars_file.doc[CHOOSE i \in FileEntries(v) : TRUE][2]

\* the variables the interactive loop was answered for
Answered == { prompts[i].var : i \in { k \in 1..Len(prompts) : prompts[k].resp # None } }

\* collect_values has returned
Resolved == pc \in {"render", "dry_run", "simulate", "format", "save"}

Rendered == pc \in {"dry_run", "simulate", "format", "save"}

\* C1: the resolved value of a template variable is its --var value when one
\* was given (the last one when repeated), otherwise its value in the --vars
\* file when the file has one, otherwise its default recorded at extraction;
\* the template of the example, {{x|default=W}}, renders the --var value.
C1_Precedence ==
    /\ (Resolved \/ pc = "prompt") =>
          \A i \in 1..Len(variables) :
              LET v == variables[i][1]
                  d == variables[i][2]
              IN  IF CliArgs(v) # {}
                  THEN DictHas(values, v) /\ DictGet(values, v) = CliLast(v)
                  ELSE IF FileEntries(v) # {}
                  THEN DictHas(values, v) /\ DictGet(values, v) = FileValue(v)
                  ELSE d # None => (DictHas(values, v) /\ DictGet(values, v) = d[1])
    /\ (Rendered /\ template = TemplateDefault /\ CliArgs(NameX) # {})
          => rendered.text = CliLast(NameX) \o <<" ","c","l","a","s","s">>

\* a default, a file value and two --var values for x: the last --var wins
C1_Witness ==
    /\ Rendered
    /\ template = TemplateDefault
    /\ variables = << <<NameX, Some(<<"W">>)>> >>
    /\ FileEntries(NameX) # {}
    /\ FileValue(NameX) = <<"F">>
    /\ Cardinality(CliArgs(NameX)) = 2
    /\ DictGet(values, NameX) = <<"D">>
    /\ rendered.text = <<"D"," ","c","l","a","s","s">>

\* the names a Missing error names, over all the lines of the error stream
MissingLines == { i \in 1..Len(stderr) : stderr[i].kind = "Missing" }

\* seq restricted to the elements that satisfy Keep, in order
FilterSeq(seq, Keep(_)) ==
    LET F[i \in 0..Len(seq)] ==
            IF i = 0 THEN <<>>
            ELSE IF Keep(seq[i]) THEN Append(F[i - 1], seq[i]) ELSE F[i - 1]
    IN  F[Len(seq)]

\* the variables, in extraction order, without a --var value, a file value
\* or a recorded default
Unsupplied ==
    LET Keep(n) == CliArgs(n) = {} /\ FileEntries(n) = {}
                   /\ DictGet(variables, n) = None
    IN  FilterSeq(DictKeys(variables), Keep)

\* C2: collect_values fails with the missing-variable error exactly when
\* some template variable has no --var value, no file value, no default and
\* no interactive answer; the error names exactly those variables; a variable
\* whose marker carries a default clause, whatever the literal, is never
\* named.
C2_MissingNamesOnlyUndefaulted ==
    /\ \A i \in MissingLines :
          /\ stderr[i].detail = Unsupplied
          /\ ~args.interactive
          /\ \A k \in 1..Len(stderr[i].detail) :
                 WithClause(template, stderr[i].detail[k]) = {}
    /\ Resolved => \A k \in 1..Len(Unsupplied) : Unsupplied[k] \in Answered

\* C8: input() is called only in interactive mode, once for each variable
\* left without a value by the --var values, the file and the defaults, in
\* extraction order; an empty answer gives the variable its default when it
\* has one and the empty string otherwise, and no missing-variable error is
\* raised.
C8_InteractiveOnlyUnresolved ==
    /\ prompts # <<>> => args.interactive
    /\ Len(prompts) <= Len(Unsupplied)
    /\ \A i \in 1..Len(prompts) : prompts[i].var = Unsupplied[i]
    /\ (Resolved /\ args.interactive) => Len(prompts) = Len(Unsupplied)
    /\ (Resolved \/ pc = "prompt") =>
          \A i \in 1..Len(prompts) :
              (prompts[i].resp = Some(<<>>))
              => DictGet(values, prompts[i].var)
                   = IF prompts[i].default # None THEN prompts[i].default[1]
                     ELSE <<>>
    /\ args.interactive => MissingLines = {}

\* two variables without any value, prompted in extraction order (y, then
\* x); the empty answer for y resolves to the empty string and the run goes on
C8_Witness ==
    /\ Resolved
    /\ args.interactive
    /\ template = TemplateYX
    /\ Len(prompts) = 2
    /\ prompts[1] = [var |-> NameY, default |-> None, resp |-> Some(<<>>)]
    /\ prompts[2].var = NameX
    /\ DictGet(values, NameY) = <<>>
    /\ MissingLines = {}

ErrorLines == { i \in 1..Len(stderr) : stderr[i].tag = "Error:" }

\* lines of the error stream that report a failure in any form
FailureLines == { i \in 1..Len(stderr) : stderr[i].tag \in {"Error:", "error:", "usage:"} }

\* C9: a run ends in exactly one of: success with status 0; a failure of any
\* kind, which prints a single message prefixed Error: and exits non-zero;
\* an interruption, which exits non-zero and prints no message.
C9_UniformExit ==
    pc = "exit" =>
        \/ exitcode = 0 /\ FailureLines = {}
        \/ /\ exitcode # 0
           /\ Cardinality(ErrorLines) = 1
           /\ FailureLines = ErrorLines
           /\ Len(stderr) \in ErrorLines
        \/ exitcode # 0 /\ FailureLines = {}

OutputPrinted == \E i \in 1..Len(stdout) : stdout[i].kind = "output"

\* C10: the history append happens at most once and is the last step: only
\* with --save, after resolution, rendering, simulation and formatting; a run
\* that ends in an error, or in --version, --check or --dry-run, appends
\* nothing.
C10_HistoryLast ==
    /\ Len(history) <= 1
    /\ history # <<>> =>
          /\ pc = "exit"
          /\ exitcode = 0
          /\ Truthy(args.save)
          /\ ~args.version /\ ~args.check /\ ~args.dry_run
          /\ rendered.ok
          /\ OutputPrinted
          /\ args.simulate => response # None
          /\ history[1].prompt = rendered.text
          /\ FailureLines = {}
    /\ (pc = "exit" /\ (exitcode # 0 \/ args.version \/ args.check \/ args.dry_run))
          => history = <<>>

\* a run with --save and --simulate that appended its one block
C10_Witness ==
    /\ pc = "exit"
    /\ exitcode = 0
    /\ Truthy(args.save)
    /\ args.simulate
    /\ Len(history) = 1
    /\ history[1].prompt = rendered.text
    /\ history[1].response = response

====
